---- MODULE Spec2Model ----
(***************************************************************************)
(* Model of lib/OpsWorksDeploy.js: one OpsWorksDeploy object, one deploy   *)
(* run.  Every remote call of the AWS client is a request put in           *)
(* `outstanding`; the callback the code passes to the client is an action  *)
(* that takes the response (err, data) as its input.  async.waterfall is   *)
(* folded into the handlers: a step's callback(null, ...) runs the next    *)
(* step, a callback(err) runs the final callback of deploy.                *)
(***************************************************************************)
EXTENDS Integers, Sequences, FiniteSets, TLC

\* ---------------------------------------------------------------- bounds
MaxApps == 2          \* longest Apps list a describeApps response carries
MaxLayers == 2        \* longest Layers list of a describeLayers response
MaxInstances == 2     \* longest Instances list of a describeInstances response
MaxDeployments == 2   \* longest Deployments list of a describeDeployments response
MaxCalls == 8         \* the call log `calls` stops growing at this length
MaxCount == 3         \* the counters nWaits, nChecks, cbCount saturate here
MaxStatusLen == 3     \* longest list given to _determineDeploymentStatus directly

\* ------------------------------------------------------------- constants
DefaultPollingTime == 10000

\* ------------------------------------------------------------ value sets
Null == "null"
Undefined == "undefined"

AppIds == {"app-1"}
Urls == {"https://s3/deployment-1.0.0.tar.gz", "https://s3/deployment-1.0.1.zip"}
\* what a caller can pass as second argument of deploy(appId, s3SourceUrl, callback)
UrlArgs == Urls \cup {"", Undefined}

ApiErrors == {"AccessDeniedException", "ThrottlingException"}

AppRecords ==
    { [AppId |-> "app-1", StackId |-> "stack-1", Type |-> "rails"],
      [AppId |-> "app-2", StackId |-> "stack-2", Type |-> "php"] }
NoApp == [AppId |-> Null, StackId |-> Null, Type |-> Null]

LayerRecords ==
    { [LayerId |-> "layer-1", Type |-> "rails-app"],
      [LayerId |-> "layer-2", Type |-> "php-app"],
      [LayerId |-> "layer-3", Type |-> "rails"],
      [LayerId |-> "layer-4", Type |-> "rails-app"] }
NoLayer == [LayerId |-> Null, Type |-> Null]

InstanceRecords ==
    [InstanceId : {"i-1", "i-2"}, Status : {"online", "stopped"}]

DeploymentIds == {"d-1", "d-2"}
\* 'skipped' stands for every Status the code does not name
Statuses == {"running", "failed", "successful", "skipped"}
DeploymentRecords == [Status : Statuses]

\* the messages of the Errors the code creates itself
ErrAppNotFound == "Unable to find AppId"
ErrNoLayers == "No OpsWorks layers found in StackId"
ErrLayerNotFound == "Unable to find layer with type"
ErrNoRunningInstances == "No running instances found for LayerId"
ErrIncomplete == "Could not retrieve all deployment statuses"
ErrDeployFailed == "Deployment failed, look in Amazon OpsWorks deployment logs to see why"
ErrUnknownStatus == "Unknown deployment status"

SeqsUpTo(S, n) == UNION { [1..k -> S] : k \in 0..n }

\* ----------------------------------------------------------------- state
VARIABLES
    started,        \* deploy() has been called
    s3SourceUrl,    \* deploy's s3SourceUrl after its argument shuffle
    reqAppId,       \* deploy's appId argument
    app,            \* the app the waterfall passes on (data.Apps[0])
    instances,      \* the running instances the waterfall passes on
    deploymentIds,  \* the ids waitForDeployFinish polls
    deployStatus,   \* this.deployStatus
    state,          \* this.state (never assigned by the code)
    pollingTime,    \* this.pollingTime
    timerArmed,     \* a setTimeout of waitForDeployFinish is pending
    outstanding,    \* requests sent to the AWS client and not yet answered
    calls,          \* log of the requests issued, in order
    lastResp,       \* the response the last handler received
    nWaits,         \* timeouts expired
    nChecks,        \* describeDeployments requests issued
    cbCount,        \* times the callback given to deploy was invoked
    cbErr,          \* its first argument at the last invocation
    cbStatus,       \* its second argument at the last invocation
    remoteUrl,      \* the application's AppSource.Url at the service
    remoteStatus,   \* the created deployment's Status at the service
    detIn,          \* argument of a direct _determineDeploymentStatus call
    detOut,         \* its result
    argv,           \* the command line of deploy.js (NoArgv: the library is used directly)
    exited,         \* deploy.js has called process.exit
    exitCode,       \* with this code
    remoteDeploymentId  \* the id of the deployment the service created

vars == <<started, s3SourceUrl, reqAppId, app, instances, deploymentIds,
          deployStatus, state, pollingTime, timerArmed, outstanding, calls,
          lastResp, nWaits, nChecks, cbCount, cbErr, cbStatus, remoteUrl,
          remoteStatus, detIn, detOut, argv, exited, exitCode, remoteDeploymentId>>

pipeVars == <<started, s3SourceUrl, reqAppId, app, instances, deploymentIds,
              deployStatus, state, pollingTime, timerArmed, outstanding, calls,
              lastResp, nWaits, nChecks, cbCount, cbErr, cbStatus, remoteUrl,
              remoteStatus, argv, exited, exitCode, remoteDeploymentId>>

NoResp == [op |-> "none", err |-> Null, data |-> [present |-> FALSE, items |-> <<>>]]

\* new OpsWorksDeploy(options): lines 28-33
Constructed ==
    /\ started = FALSE
    /\ s3SourceUrl = Undefined
    /\ reqAppId = Undefined
    /\ app = NoApp
    /\ instances = <<>>
    /\ deploymentIds = <<>>
    /\ deployStatus = Null
    /\ state = Undefined
    /\ pollingTime = DefaultPollingTime
    /\ timerArmed = FALSE
    /\ outstanding = {}
    /\ calls = <<>>
    /\ lastResp = NoResp
    /\ nWaits = 0
    /\ nChecks = 0
    /\ cbCount = 0
    /\ cbErr = Undefined
    /\ cbStatus = Undefined
    /\ remoteUrl = "https://s3/deployment-0.9.0.tar.gz"
    /\ remoteStatus = "none"
    /\ remoteDeploymentId = Null
    /\ exited = FALSE
    /\ exitCode = 0

\* no command line: a caller uses the OpsWorksDeploy object directly
NoArgv == [appId |-> Undefined, s3url |-> <<>>, flag |-> "none", value |-> Undefined]

Init ==
    /\ Constructed
    /\ argv = NoArgv
    /\ detIn = <<>>
    /\ detOut = Undefined


\* ------------------------------------------------------------- helpers
\* Truthy as the test s3SourceUrl !== null
TruthyNotNull(x) == x # Null

\* JavaScript truthiness of the values a source URL argument can take
Truthy(x) == x \notin {Null, Undefined, ""}

Inc(n) == IF n < MaxCount THEN n + 1 ELSE n

Request(op, args) == [op |-> op, args |-> args]
Log(req) == IF Len(calls) < MaxCalls THEN Append(calls, req) ELSE calls

\* the handler of `answered` returns having sent `req` to the AWS client
Call(answered, req) ==
    /\ outstanding' = (outstanding \ answered) \cup {req}
    /\ calls' = Log(req)

\* the handler of `answered` returns having sent nothing
NoCall(answered) ==
    /\ outstanding' = outstanding \ answered
    /\ calls' = calls

\* what the final callback of the waterfall sees as `status` when a step
\* fails with callback(err, app, instances): the app object
AppObject == "[object Object]"

\* deploy.js runs the deploy: argv is a command line
ViaCli == argv # NoArgv

\* ExitCodeFor always reporting success
ExitCodeForAlwaysZero(err) == 0

\* deploy.js, line 60: (err) ? 1 : 0
ExitCodeFor(err) == IF Truthy(err) THEN 1 ELSE 0

\* deploy.js, the callback it gives deploy (lines 56-61)
CliCallback(err, status) ==
    /\ exited' = TRUE
    /\ exitCode' = ExitCodeFor(err)

\* the final callback of async.waterfall in deploy: callback(err, status)
Finish(err, status) ==
    /\ cbCount' = Inc(cbCount)
    /\ cbErr' = err
    /\ cbStatus' = status
    /\ IF ViaCli THEN CliCallback(err, status) ELSE UNCHANGED <<exited, exitCode>>

NotFinished == UNCHANGED <<cbCount, cbErr, cbStatus, exited, exitCode>>

\* responses of the AWS client: callback(err, data)
Failure(e) == [err |-> e, data |-> [present |-> FALSE, items |-> <<>>]]
Absent == [err |-> Null, data |-> [present |-> FALSE, items |-> <<>>]]
Listed(items) == [err |-> Null, data |-> [present |-> TRUE, items |-> items]]
Failures == { Failure(e) : e \in ApiErrors }

Received(op, resp) == lastResp' = [op |-> op, err |-> resp.err, data |-> resp.data]

DescribeAppsResponses ==
    Failures \cup {Absent} \cup { Listed(s) : s \in SeqsUpTo(AppRecords, MaxApps) }
DescribeLayersResponses ==
    Failures \cup {Absent} \cup { Listed(s) : s \in SeqsUpTo(LayerRecords, MaxLayers) }
DescribeInstancesResponses ==
    Failures \cup { Listed(s) : s \in SeqsUpTo(InstanceRecords, MaxInstances) }
UpdateAppResponses == Failures \cup { Listed(<<>>) }
CreateDeploymentResponses ==
    Failures \cup { Listed(<<[DeploymentId |-> d]>>) : d \in DeploymentIds }
\* every record the service returns for the created deployment reports its
\* current Status; the list may be absent, short or long
DescribeDeploymentsResponses ==
    Failures \cup {Absent}
      \cup { Listed([i \in 1..k |-> [Status |-> remoteStatus]]) : k \in 0..MaxDeployments }

\* ------------------------------------------------------ pure functions
\* LayerTypeFor without the '-app' suffix
LayerTypeForNoSuffix(type) == type

\* deploy, doFindRunningInstances: app.Type + '-app'
LayerTypeFor(type) == type \o "-app"

\* findLayerLoop without the test result === null: the last match wins
RECURSIVE findLayerLoopLast(_, _, _, _)
findLayerLoopLast(Layers, layerType, i, result) ==
    IF i <= Len(Layers)
    THEN findLayerLoopLast(Layers, layerType, i + 1,
                           IF Layers[i].Type = layerType THEN Layers[i] ELSE result)
    ELSE result

\* findLayerByType, the while loop of lines 174-182
RECURSIVE findLayerLoop(_, _, _, _)
findLayerLoop(Layers, layerType, i, result) ==
    IF i <= Len(Layers) /\ result = NoLayer
    THEN findLayerLoop(Layers, layerType, i + 1,
                       IF Layers[i].Type = layerType THEN Layers[i] ELSE result)
    ELSE result

\* findRunningInstancesByLayerId, the filter of lines 207-209
IsOnline(element) == element.Status = "online"
\* OnlineOnly keeping the first online instance only
OnlineOnlyFirst(Instances) ==
    IF SelectSeq(Instances, IsOnline) = <<>> THEN <<>>
    ELSE <<Head(SelectSeq(Instances, IsOnline))>>
\* OnlineOnly without the filter
OnlineOnlyUnfiltered(Instances) == Instances
OnlineOnly(Instances) == SelectSeq(Instances, IsOnline)

\* determineStep with the 'failed' test before the 'running' test
determineStepFailedFirst(status, s) ==
    IF status = "failed" \/ s = "failed" THEN "failed"
    ELSE IF status = "running" \/ s = "running" THEN "running"
    ELSE "successful"

\* _determineDeploymentStatus, one pass of the loop body (lines 334-340)
determineStep(status, s) ==
    IF status = "running" \/ s = "running" THEN "running"
    ELSE IF status = "failed" \/ s = "failed" THEN "failed"
    ELSE IF status # "failed" THEN "successful"
    ELSE status

RECURSIVE determineLoop(_, _, _)
determineLoop(deployments, i, status) ==
    IF i > Len(deployments) THEN status
    ELSE determineLoop(deployments, i + 1, determineStep(status, deployments[i].Status))

determineDeploymentStatus(deployments) == determineLoop(deployments, 1, Null)


\* ------------------------------------------------------------- actions
\* deploy(appId, s3SourceUrl, callback), lines 46-57 and findApp 101-105.
\* hasUrlArg = FALSE is the two-argument call deploy(appId, callback).
Deploy(appId, urlArg, hasUrlArg) ==
    /\ ~started
    /\ started' = TRUE
    /\ reqAppId' = appId
    /\ s3SourceUrl' = IF hasUrlArg THEN urlArg ELSE Null
    /\ Call({}, Request("describeApps", <<appId>>))
    /\ NotFinished
    /\ UNCHANGED <<app, instances, deploymentIds, deployStatus, state, pollingTime,
                   timerArmed, lastResp, nWaits, nChecks, remoteUrl, remoteStatus,
                   detIn, detOut, argv, remoteDeploymentId>>

\* OnDescribeApps taking the last record of data.Apps
OnDescribeAppsLast(req, resp) ==
    /\ req \in outstanding
    /\ req.op = "describeApps"
    /\ Received(req.op, resp)
    /\ IF resp.err # Null
       THEN /\ Finish(resp.err, Undefined)
            /\ NoCall({req})
            /\ app' = app
       ELSE IF ~resp.data.present \/ Len(resp.data.items) = 0
       THEN /\ Finish(ErrAppNotFound, Undefined)
            /\ NoCall({req})
            /\ app' = app
       ELSE /\ app' = resp.data.items[Len(resp.data.items)]
            /\ Call({req}, Request("describeLayers", <<app'.StackId>>))
            /\ NotFinished
    /\ UNCHANGED <<started, s3SourceUrl, reqAppId, instances, deploymentIds,
                   deployStatus, state, pollingTime, timerArmed, nWaits, nChecks,
                   remoteUrl, remoteStatus, detIn, detOut, argv, remoteDeploymentId>>

\* the callback of describeApps (findApp, lines 105-112), then
\* doFindRunningInstances up to the describeLayers call (lines 58-59, 130-131, 164-168)
OnDescribeApps(req, resp) ==
    /\ req \in outstanding
    /\ req.op = "describeApps"
    /\ Received(req.op, resp)
    /\ IF resp.err # Null
       THEN /\ Finish(resp.err, Undefined)
            /\ NoCall({req})
            /\ app' = app
       ELSE IF ~resp.data.present \/ Len(resp.data.items) = 0
       THEN /\ Finish(ErrAppNotFound, Undefined)
            /\ NoCall({req})
            /\ app' = app
       ELSE /\ app' = resp.data.items[1]
            /\ Call({req}, Request("describeLayers", <<app'.StackId>>))
            /\ NotFinished
    /\ UNCHANGED <<started, s3SourceUrl, reqAppId, instances, deploymentIds,
                   deployStatus, state, pollingTime, timerArmed, nWaits, nChecks,
                   remoteUrl, remoteStatus, detIn, detOut, argv, remoteDeploymentId>>

\* the callback of describeLayers (findLayerByType, lines 168-184) and the
\* callback findRunningInstances gives it (lines 131-137), up to the
\* describeInstances call (lines 199-203)
OnDescribeLayers(req, resp) ==
    /\ req \in outstanding
    /\ req.op = "describeLayers"
    /\ Received(req.op, resp)
    /\ IF resp.err # Null
       THEN /\ Finish(resp.err, AppObject)
            /\ NoCall({req})
       ELSE IF ~resp.data.present \/ Len(resp.data.items) = 0
       THEN /\ Finish(ErrNoLayers, AppObject)
            /\ NoCall({req})
       ELSE LET layer == findLayerLoop(resp.data.items, LayerTypeFor(app.Type), 1, NoLayer)
            IN  IF layer = NoLayer
                THEN /\ Finish(ErrLayerNotFound, AppObject)
                     /\ NoCall({req})
                ELSE /\ Call({req}, Request("describeInstances", <<layer.LayerId>>))
                     /\ NotFinished
    /\ UNCHANGED <<started, s3SourceUrl, reqAppId, app, instances, deploymentIds,
                   deployStatus, state, pollingTime, timerArmed, nWaits, nChecks,
                   remoteUrl, remoteStatus, detIn, detOut, argv, remoteDeploymentId>>

\* doUpdateApp, lines 63-71, and doCreateDeployment when it is skipped: the
\* request the waterfall sends once the running instances are known
AfterInstances ==
    IF Truthy(s3SourceUrl)
    THEN Request("updateApp", <<app.AppId, s3SourceUrl>>)
    ELSE Request("createDeployment", <<app.StackId, app.AppId, "deploy">>)

\* the callback of describeInstances (findRunningInstancesByLayerId, lines
\* 203-211) and the callback findRunningInstances gives it (lines 137-145),
\* then doUpdateApp / doCreateDeployment up to their call
OnDescribeInstances(req, resp) ==
    /\ req \in outstanding
    /\ req.op = "describeInstances"
    /\ Received(req.op, resp)
    /\ IF resp.err # Null
       THEN /\ Finish(resp.err, AppObject)
            /\ NoCall({req})
            /\ instances' = instances
       ELSE IF Len(OnlineOnly(resp.data.items)) = 0
       THEN /\ Finish(ErrNoRunningInstances, AppObject)
            /\ NoCall({req})
            /\ instances' = instances
       ELSE /\ instances' = OnlineOnly(resp.data.items)
            /\ Call({req}, AfterInstances)
            /\ NotFinished
    /\ UNCHANGED <<started, s3SourceUrl, reqAppId, app, deploymentIds,
                   deployStatus, state, pollingTime, timerArmed, nWaits, nChecks,
                   remoteUrl, remoteStatus, detIn, detOut, argv, remoteDeploymentId>>

\* OnUpdateApp dropping the err of updateApp: the waterfall goes on
OnUpdateAppDroppingErr(req, resp) ==
    /\ req \in outstanding
    /\ req.op = "updateApp"
    /\ Received(req.op, resp)
    /\ remoteUrl' = IF resp.err = Null THEN req.args[2] ELSE remoteUrl
    /\ Call({req}, Request("createDeployment", <<app.StackId, app.AppId, "deploy">>))
    /\ NotFinished
    /\ UNCHANGED <<started, s3SourceUrl, reqAppId, app, instances, deploymentIds,
                   deployStatus, state, pollingTime, timerArmed, nWaits, nChecks,
                   remoteStatus, detIn, detOut, argv, remoteDeploymentId>>

\* the callback of updateApp (lines 439-444, 65-67), then doCreateDeployment up
\* to the createDeployment call (lines 72-73, 229-238).  A successful
\* update-application has set the application's source URL at the service.
OnUpdateApp(req, resp) ==
    /\ req \in outstanding
    /\ req.op = "updateApp"
    /\ Received(req.op, resp)
    /\ IF resp.err # Null
       THEN /\ Finish(resp.err, AppObject)
            /\ NoCall({req})
            /\ remoteUrl' = remoteUrl
       ELSE /\ remoteUrl' = req.args[2]
            /\ Call({req}, Request("createDeployment", <<app.StackId, app.AppId, "deploy">>))
            /\ NotFinished
    /\ UNCHANGED <<started, s3SourceUrl, reqAppId, app, instances, deploymentIds,
                   deployStatus, state, pollingTime, timerArmed, nWaits, nChecks,
                   remoteStatus, detIn, detOut, argv, remoteDeploymentId>>

\* OnCreateDeployment restoring the application's former source URL when
\* createDeployment fails
OnCreateDeploymentRollback(req, resp) ==
    /\ req \in outstanding
    /\ req.op = "createDeployment"
    /\ Received(req.op, resp)
    /\ NoCall({req})
    /\ IF resp.err # Null
       THEN /\ Finish(resp.err, Undefined)
            /\ remoteUrl' = "https://s3/deployment-0.9.0.tar.gz"
            /\ UNCHANGED <<deploymentIds, timerArmed, remoteStatus, remoteDeploymentId>>
       ELSE /\ deploymentIds' = <<resp.data.items[1].DeploymentId>>
            /\ remoteDeploymentId' = resp.data.items[1].DeploymentId
            /\ remoteStatus' = "running"
            /\ timerArmed' = TRUE
            /\ remoteUrl' = remoteUrl
            /\ NotFinished
    /\ UNCHANGED <<started, s3SourceUrl, reqAppId, app, instances,
                   deployStatus, state, pollingTime, nWaits, nChecks,
                   detIn, detOut, argv>>

\* OnCreateDeployment polling the AppId instead of data.DeploymentId
OnCreateDeploymentWrongId(req, resp) ==
    /\ req \in outstanding
    /\ req.op = "createDeployment"
    /\ Received(req.op, resp)
    /\ NoCall({req})
    /\ IF resp.err # Null
       THEN /\ Finish(resp.err, Undefined)
            /\ UNCHANGED <<deploymentIds, timerArmed, remoteStatus, remoteDeploymentId>>
       ELSE /\ deploymentIds' = <<app.AppId>>
            /\ remoteDeploymentId' = resp.data.items[1].DeploymentId
            /\ remoteStatus' = "running"
            /\ timerArmed' = TRUE
            /\ NotFinished
    /\ UNCHANGED <<started, s3SourceUrl, reqAppId, app, instances,
                   deployStatus, state, pollingTime, nWaits, nChecks,
                   remoteUrl, detIn, detOut, argv>>

\* OnCreateDeployment checking the status at once, without the first wait
OnCreateDeploymentImmediate(req, resp) ==
    /\ req \in outstanding
    /\ req.op = "createDeployment"
    /\ Received(req.op, resp)
    /\ IF resp.err # Null
       THEN /\ Finish(resp.err, Undefined)
            /\ NoCall({req})
            /\ nChecks' = nChecks
            /\ UNCHANGED <<deploymentIds, timerArmed, remoteStatus, remoteDeploymentId>>
       ELSE /\ deploymentIds' = <<resp.data.items[1].DeploymentId>>
            /\ remoteDeploymentId' = resp.data.items[1].DeploymentId
            /\ remoteStatus' = "running"
            /\ timerArmed' = timerArmed
            /\ Call({req}, Request("describeDeployments", deploymentIds'))
            /\ nChecks' = Inc(nChecks)
            /\ NotFinished
    /\ UNCHANGED <<started, s3SourceUrl, reqAppId, app, instances,
                   deployStatus, state, pollingTime, nWaits,
                   remoteUrl, detIn, detOut, argv>>

\* the callback of createDeployment (lines 238-244), then doWaitForDeployFinish
\* and the setTimeout of waitForDeployFinish (lines 75-76, 262-263, 284).  The
\* service has started the deployment: its Status is 'running'.
OnCreateDeployment(req, resp) ==
    /\ req \in outstanding
    /\ req.op = "createDeployment"
    /\ Received(req.op, resp)
    /\ NoCall({req})
    /\ IF resp.err # Null
       THEN /\ Finish(resp.err, Undefined)
            /\ UNCHANGED <<deploymentIds, timerArmed, remoteStatus, remoteDeploymentId>>
       ELSE /\ deploymentIds' = <<resp.data.items[1].DeploymentId>>
            /\ remoteDeploymentId' = resp.data.items[1].DeploymentId
            /\ remoteStatus' = "running"
            /\ timerArmed' = TRUE
            /\ NotFinished
    /\ UNCHANGED <<started, s3SourceUrl, reqAppId, app, instances,
                   deployStatus, state, pollingTime, nWaits, nChecks,
                   remoteUrl, detIn, detOut, argv>>

\* TimerFires as a repeating timer: armed again before the answer is in
TimerFiresRearming ==
    /\ timerArmed
    /\ nWaits' = Inc(nWaits)
    /\ IF state = "successfull" \/ state = "failed"
       THEN /\ Finish(Null, state)
            /\ timerArmed' = FALSE
            /\ NoCall({})
            /\ nChecks' = nChecks
       ELSE /\ Call({}, Request("describeDeployments", deploymentIds))
            /\ timerArmed' = TRUE
            /\ nChecks' = Inc(nChecks)
            /\ NotFinished
    /\ UNCHANGED <<started, s3SourceUrl, reqAppId, app, instances, deploymentIds,
                   deployStatus, state, pollingTime, lastResp,
                   remoteUrl, remoteStatus, detIn, detOut, argv, remoteDeploymentId>>

\* the function waitForDeployFinish gives to setTimeout, lines 263-267, and
\* getDeploymentStatus up to the describeDeployments call (lines 299-303)
TimerFires ==
    /\ timerArmed
    /\ timerArmed' = FALSE
    /\ nWaits' = Inc(nWaits)
    /\ IF state = "successfull" \/ state = "failed"
       THEN /\ Finish(Null, state)
            /\ NoCall({})
            /\ nChecks' = nChecks
       ELSE /\ Call({}, Request("describeDeployments", deploymentIds))
            /\ nChecks' = Inc(nChecks)
            /\ NotFinished
    /\ UNCHANGED <<started, s3SourceUrl, reqAppId, app, instances, deploymentIds,
                   deployStatus, state, pollingTime, lastResp,
                   remoteUrl, remoteStatus, detIn, detOut, argv, remoteDeploymentId>>

\* StatusResult replacing the error of describeDeployments by its own
StatusResultWrappingErr(ids, resp) ==
    IF resp.err # Null \/ ~resp.data.present \/ Len(resp.data.items) # Len(ids)
    THEN [err |-> ErrIncomplete, status |-> Undefined]
    ELSE [err |-> Null, status |-> determineDeploymentStatus(resp.data.items)]

\* StatusResult without the comparison of the two lengths
StatusResultNoLengthCheck(ids, resp) ==
    IF resp.err # Null
    THEN [err |-> resp.err, status |-> Undefined]
    ELSE IF ~resp.data.present
    THEN [err |-> ErrIncomplete, status |-> Undefined]
    ELSE [err |-> Null, status |-> determineDeploymentStatus(resp.data.items)]

\* getDeploymentStatus, the callback of describeDeployments (lines 303-311):
\* the (err, status) it hands to waitForDeployFinish
StatusResult(ids, resp) ==
    IF resp.err # Null
    THEN [err |-> resp.err, status |-> Undefined]
    ELSE IF ~resp.data.present \/ Len(resp.data.items) # Len(ids)
    THEN [err |-> ErrIncomplete, status |-> Undefined]
    ELSE [err |-> Null, status |-> determineDeploymentStatus(resp.data.items)]

\* OnStatus handing 'running' to the callback instead of polling again
OnStatusRunningReported(r) ==
    IF r.err # Null
    THEN /\ Finish(r.err, Undefined)
         /\ UNCHANGED <<deployStatus, timerArmed>>
    ELSE /\ deployStatus' = r.status
         /\ timerArmed' = timerArmed
         /\ IF r.status = "failed"
            THEN Finish(ErrDeployFailed, Undefined)
            ELSE IF r.status = "successful" \/ r.status = "running"
            THEN Finish(Null, r.status)
            ELSE Finish(ErrUnknownStatus, Undefined)

\* OnStatus handing 'failed' to the callback as a status, not as an error
OnStatusFailedAsStatus(r) ==
    IF r.err # Null
    THEN /\ Finish(r.err, Undefined)
         /\ UNCHANGED <<deployStatus, timerArmed>>
    ELSE /\ deployStatus' = r.status
         /\ IF r.status = "running"
            THEN /\ timerArmed' = TRUE
                 /\ NotFinished
            ELSE IF r.status = "failed" \/ r.status = "successful"
            THEN /\ Finish(Null, r.status)
                 /\ timerArmed' = timerArmed
            ELSE /\ Finish(ErrUnknownStatus, Undefined)
                 /\ timerArmed' = timerArmed

\* OnStatus giving up after MaxCount status checks
OnStatusWithRetryCap(r) ==
    IF r.err # Null
    THEN /\ Finish(r.err, Undefined)
         /\ UNCHANGED <<deployStatus, timerArmed>>
    ELSE /\ deployStatus' = r.status
         /\ IF r.status = "running" /\ nChecks < MaxCount
            THEN /\ timerArmed' = TRUE
                 /\ NotFinished
            ELSE IF r.status = "failed" \/ r.status = "running"
            THEN /\ Finish(ErrDeployFailed, Undefined)
                 /\ timerArmed' = timerArmed
            ELSE IF r.status = "successful"
            THEN /\ Finish(Null, r.status)
                 /\ timerArmed' = timerArmed
            ELSE /\ Finish(ErrUnknownStatus, Undefined)
                 /\ timerArmed' = timerArmed

\* OnStatus polling again on 'failed' as it does on 'running'
OnStatusRetryingFailed(r) ==
    IF r.err # Null
    THEN /\ Finish(r.err, Undefined)
         /\ UNCHANGED <<deployStatus, timerArmed>>
    ELSE /\ deployStatus' = r.status
         /\ IF r.status = "running" \/ r.status = "failed"
            THEN /\ timerArmed' = TRUE
                 /\ NotFinished
            ELSE IF r.status = "successful"
            THEN /\ Finish(Null, r.status)
                 /\ timerArmed' = timerArmed
            ELSE /\ Finish(ErrUnknownStatus, Undefined)
                 /\ timerArmed' = timerArmed

\* waitForDeployFinish, the callback it gives getDeploymentStatus (lines 267-283)
OnStatus(r) ==
    IF r.err # Null
    THEN /\ Finish(r.err, Undefined)
         /\ UNCHANGED <<deployStatus, timerArmed>>
    ELSE /\ deployStatus' = r.status
         /\ IF r.status = "running"
            THEN /\ timerArmed' = TRUE
                 /\ NotFinished
            ELSE IF r.status = "failed"
            THEN /\ Finish(ErrDeployFailed, Undefined)
                 /\ timerArmed' = timerArmed
            ELSE IF r.status = "successful"
            THEN /\ Finish(Null, r.status)
                 /\ timerArmed' = timerArmed
            ELSE /\ Finish(ErrUnknownStatus, Undefined)
                 /\ timerArmed' = timerArmed

\* the callback of describeDeployments
OnDescribeDeployments(req, resp) ==
    /\ req \in outstanding
    /\ req.op = "describeDeployments"
    /\ Received(req.op, resp)
    /\ NoCall({req})
    /\ OnStatus(StatusResult(req.args, resp))
    /\ UNCHANGED <<started, s3SourceUrl, reqAppId, app, instances, deploymentIds,
                   state, pollingTime, nWaits, nChecks,
                   remoteUrl, remoteStatus, detIn, detOut, argv, remoteDeploymentId>>

\* the service: a running deployment finishes (or takes a Status the code
\* does not name); a finished deployment keeps its Status
RemoteProgress(s) ==
    /\ remoteStatus = "running"
    /\ s # "running"
    /\ remoteStatus' = s
    /\ UNCHANGED <<started, s3SourceUrl, reqAppId, app, instances, deploymentIds,
                   deployStatus, state, pollingTime, timerArmed, outstanding, calls,
                   lastResp, nWaits, nChecks, cbCount, cbErr, cbStatus, remoteUrl,
                   detIn, detOut, argv, exited, exitCode, remoteDeploymentId>>

DeployCall ==
    \E appId \in AppIds, urlArg \in UrlArgs, hasUrlArg \in BOOLEAN :
        Deploy(appId, urlArg, hasUrlArg)

DescribeAppsCallback ==
    \E req \in outstanding, resp \in DescribeAppsResponses : OnDescribeApps(req, resp)
DescribeLayersCallback ==
    \E req \in outstanding, resp \in DescribeLayersResponses : OnDescribeLayers(req, resp)
DescribeInstancesCallback ==
    \E req \in outstanding, resp \in DescribeInstancesResponses : OnDescribeInstances(req, resp)
UpdateAppCallback ==
    \E req \in outstanding, resp \in UpdateAppResponses : OnUpdateApp(req, resp)
CreateDeploymentCallback ==
    \E req \in outstanding, resp \in CreateDeploymentResponses : OnCreateDeployment(req, resp)
DescribeDeploymentsCallback ==
    \E req \in outstanding, resp \in DescribeDeploymentsResponses :
        OnDescribeDeployments(req, resp)

\* the AWS client answers an outstanding request
Respond ==
    \/ DescribeAppsCallback
    \/ DescribeLayersCallback
    \/ DescribeInstancesCallback
    \/ UpdateAppCallback
    \/ CreateDeploymentCallback
    \/ DescribeDeploymentsCallback

Remote == \E s \in Statuses : RemoteProgress(s)

Next ==
    \/ DeployCall
    \/ Respond
    \/ TimerFires
    \/ Remote

Spec == Init /\ [][Next]_vars

\* the event loop runs an expired timeout, and the AWS client answers every
\* request: both eventually happen
FairSpec == Init /\ [][Next]_vars /\ WF_vars(TimerFires) /\ WF_vars(Respond)


\* ------------------------------------------------------------ deploy.js
\* A URL given to --s3url, as the pieces it is made of; "{VERSION}" is the
\* placeholder.  <<>> stands for no --s3url option.
Placeholder == "{VERSION}"
S3UrlOptions ==
    { <<>>,
      <<"https://s3/deployment-", Placeholder, ".tar.gz">>,
      <<"https://s3/", Placeholder, "/deployment-", Placeholder, ".zip">>,
      <<"https://s3/deployment-1.0.1.zip">> }
VersionValues == {"1.0.0", "1.0.1"}
\* the spellings a version option can be given with; the README uses --version
VersionFlags == {"--version", "--appVersion", "-v"}

Argvs ==
    { [appId |-> a, s3url |-> u, flag |-> "none", value |-> Undefined] :
          a \in AppIds, u \in S3UrlOptions }
      \cup [appId : AppIds, s3url : S3UrlOptions, flag : VersionFlags, value : VersionValues]

\* the pieces of a string, joined
RECURSIVE Join(_)
Join(pieces) == IF pieces = <<>> THEN "" ELSE Head(pieces) \o Join(Tail(pieces))

\* String.prototype.replace with a string pattern: the first occurrence only
RECURSIVE ReplaceFirst(_, _, _)
ReplaceFirst(pieces, pattern, by) ==
    IF pieces = <<>> THEN <<>>
    ELSE IF Head(pieces) = pattern THEN <<by>> \o Tail(pieces)
    ELSE <<Head(pieces)>> \o ReplaceFirst(Tail(pieces), pattern, by)

\* nomnom's parse of the command line (deploy.js, lines 22-35): appVersion is
\* set by --appVersion and by its abbreviation -v; an option nomnom was not
\* told about, such as --version, is kept under its own name
ParseOpts(a) ==
    [appId |-> a.appId,
     hasS3url |-> a.s3url # <<>>,
     s3url |-> a.s3url,
     appVersion |-> IF a.flag \in {"--appVersion", "-v"} THEN a.value ELSE Undefined,
     version |-> IF a.flag = "--version" THEN a.value ELSE Undefined]

\* deploy.js, lines 49-52: opts.s3url as it is handed to deploy
CliS3Url(opts) ==
    IF ~opts.hasS3url THEN Undefined
    ELSE IF Truthy(Join(opts.s3url)) /\ Truthy(opts.appVersion)
    THEN Join(ReplaceFirst(opts.s3url, Placeholder, opts.appVersion))
    ELSE Join(opts.s3url)

\* deploy.js, lines 55-56: deployer.deploy(opts.appId, opts.s3url, callback)
CliMain ==
    /\ ViaCli
    /\ Deploy(ParseOpts(argv).appId, CliS3Url(ParseOpts(argv)), TRUE)

InitCli ==
    /\ Constructed
    /\ argv \in Argvs
    /\ detIn = <<>>
    /\ detOut = Undefined

NextCli ==
    \/ CliMain
    \/ Respond
    \/ TimerFires
    \/ Remote

CliSpec == InitCli /\ [][NextCli]_vars

\* ------------------------------------------ direct calls of the aggregate
\* _determineDeploymentStatus(deployments) called on its own, lines 331-343
InitStatus ==
    /\ Constructed
    /\ argv = NoArgv
    /\ detIn \in SeqsUpTo(DeploymentRecords, MaxStatusLen)
    /\ detOut = Undefined

DetermineDeploymentStatus ==
    /\ detOut = Undefined
    /\ detOut' = determineDeploymentStatus(detIn)
    /\ UNCHANGED <<pipeVars, detIn>>

NextStatus == DetermineDeploymentStatus

StatusSpec == InitStatus /\ [][NextStatus]_vars

\* ----------------------------------------------------------------- claims
Recognized == {"running", "failed", "successful"}
HasStatus(deployments, s) == \E i \in 1..Len(deployments) : deployments[i].Status = s
Called(op) == \E i \in 1..Len(calls) : calls[i].op = op
CountCalls(op) == Cardinality({ i \in 1..Len(calls) : calls[i].op = op })
RespOk(op) == lastResp.op = op /\ lastResp.err = Null
RespItems == lastResp.data.items
Idle == outstanding = {} /\ ~timerArmed

\* the layer type the convention "{Type}-app" gives each application type
ConventionLayerType(type) ==
    CASE type = "rails" -> "rails-app"
      [] type = "php" -> "php-app"
      [] OTHER -> "none"

\* C1: for every non-empty list of statuses drawn from running, failed and
\* successful, _determineDeploymentStatus returns 'running' if any element is
\* 'running', otherwise 'failed' if any element is 'failed', otherwise
\* 'successful', whatever the order of the elements.
C1_AggregateLaw ==
    (/\ detOut # Undefined
     /\ Len(detIn) > 0
     /\ \A i \in 1..Len(detIn) : detIn[i].Status \in Recognized)
    => detOut = (IF HasStatus(detIn, "running") THEN "running"
                 ELSE IF HasStatus(detIn, "failed") THEN "failed"
                 ELSE "successful")

C1_Witness ==
    /\ detOut = "running"
    /\ Len(detIn) = 3
    /\ detIn[1].Status = "failed"
    /\ detIn[2].Status = "successful"
    /\ detIn[3].Status = "running"

\* C2: when describe-instances lists no instance with Status 'online', the run
\* ends with the 'no running instances' error and neither update-application
\* nor create-deployment has been invoked.
C2_NoOnlineNoDeployment ==
    (/\ RespOk("describeInstances")
     /\ ~HasStatus(RespItems, "online"))
    => /\ cbCount = 1
       /\ cbErr = ErrNoRunningInstances
       /\ ~Called("updateApp")
       /\ ~Called("createDeployment")
       /\ Idle

C2_Witness ==
    /\ RespOk("describeInstances")
    /\ Len(RespItems) = 2
    /\ ~HasStatus(RespItems, "online")
    /\ Truthy(s3SourceUrl)
    /\ cbErr = ErrNoRunningInstances

\* the error the step that received lastResp reports, Null when it reports none
ReportedError ==
    IF lastResp.op = "none" THEN Null
    ELSE IF lastResp.err # Null THEN lastResp.err
    ELSE CASE lastResp.op = "describeApps" ->
                IF ~lastResp.data.present \/ Len(RespItems) = 0
                THEN ErrAppNotFound ELSE Null
           [] lastResp.op = "describeLayers" ->
                IF ~lastResp.data.present \/ Len(RespItems) = 0 THEN ErrNoLayers
                ELSE IF \A i \in 1..Len(RespItems) :
                           RespItems[i].Type # ConventionLayerType(app.Type)
                THEN ErrLayerNotFound ELSE Null
           [] lastResp.op = "describeInstances" ->
                IF ~HasStatus(RespItems, "online") THEN ErrNoRunningInstances ELSE Null
           [] lastResp.op = "describeDeployments" ->
                IF ~lastResp.data.present \/ Len(RespItems) # 1 THEN ErrIncomplete
                ELSE IF RespItems[1].Status = "failed" THEN ErrDeployFailed
                ELSE Null
           [] OTHER -> Null

\* C3: once a pipeline step has reported an error, the deploy callback has
\* received that error, the failed call is the last remote call of the run,
\* and no request and no poll timer is pending.
C3_AbortOnFirstError ==
    ReportedError # Null
    => /\ cbCount = 1
       /\ cbErr = ReportedError
       /\ calls[Len(calls)].op = lastResp.op
       /\ Idle

C3_Witness ==
    /\ lastResp.op = "updateApp"
    /\ lastResp.err \in ApiErrors
    /\ cbErr = lastResp.err
    /\ Len(calls) = 4

\* the last status check itself failed: an API error, or not one record per id
StatusCheckFailed ==
    /\ lastResp.op = "describeDeployments"
    /\ \/ lastResp.err # Null
       \/ ~lastResp.data.present
       \/ Len(RespItems) # Len(deploymentIds)

Polling ==
    \/ timerArmed
    \/ \E req \in outstanding : req.op = "describeDeployments"

\* C4 as stated: the callback is never invoked while the last observed
\* aggregate is 'running'; 'failed' is delivered as an error and 'successful'
\* as the result, and polling has stopped then.
C4_Original ==
    /\ deployStatus = "running" => cbCount = 0 /\ Polling
    /\ deployStatus = "failed" => cbCount = 1 /\ cbErr = ErrDeployFailed /\ Idle
    /\ deployStatus = "successful" =>
          cbCount = 1 /\ cbErr = Null /\ cbStatus = "successful" /\ Idle

\* C4 (amended): while the last observed aggregate is 'running' the poller
\* keeps polling and does not invoke its callback, unless a status check
\* itself fails (API error or incomplete result), whose error it delivers at
\* once; 'failed' is delivered as an error and 'successful' as the result.
C4_PollWhileRunning ==
    /\ deployStatus = "running" =>
          \/ cbCount = 0 /\ Polling
          \/ /\ StatusCheckFailed
             /\ cbCount = 1
             /\ cbErr = (IF lastResp.err # Null THEN lastResp.err ELSE ErrIncomplete)
             /\ Idle
    /\ deployStatus = "failed" => cbCount = 1 /\ cbErr = ErrDeployFailed /\ Idle
    /\ deployStatus = "successful" =>
          cbCount = 1 /\ cbErr = Null /\ cbStatus = "successful" /\ Idle

C4_Witness ==
    /\ deployStatus = "running"
    /\ StatusCheckFailed
    /\ nChecks = 2
    /\ cbCount = 1

\* C5: a polled deployment whose Status is outside running, failed and
\* successful ends the run with the unrecognized-status error and is never
\* reported as 'successful', 'failed' or 'running'.
C5_UnknownStatusIsError ==
    (/\ RespOk("describeDeployments")
     /\ lastResp.data.present
     /\ Len(RespItems) = 1
     /\ RespItems[1].Status \notin Recognized)
    => /\ cbCount = 1
       /\ cbErr = ErrUnknownStatus
       /\ deployStatus \notin Recognized

\* a source URL was supplied to deploy
UrlSupplied == s3SourceUrl \in Urls

\* C6: update-application is invoked only if a source URL was supplied; with
\* one, and the first two steps succeeding, it is invoked exactly once, with
\* the application's id and the supplied URL, before create-deployment.
C6_UpdateOnlyWithUrl ==
    /\ Called("updateApp") => UrlSupplied
    /\ CountCalls("updateApp") <= 1
    /\ \A i \in 1..Len(calls) :
          calls[i].op = "updateApp" => calls[i].args = <<app.AppId, s3SourceUrl>>
    /\ (UrlSupplied /\ Len(instances) > 0) => CountCalls("updateApp") = 1
    /\ \A j \in 1..Len(calls) :
          (calls[j].op = "createDeployment" /\ UrlSupplied)
          => \E i \in 1..(j - 1) : calls[i].op = "updateApp"

C6_Witness ==
    /\ UrlSupplied
    /\ Len(calls) >= 5
    /\ calls[4] = Request("updateApp", <<app.AppId, s3SourceUrl>>)
    /\ calls[5].op = "createDeployment"

\* C7: when describe-deployments returns fewer records than ids requested, or
\* no Deployments list, the status check yields the incomplete-result error,
\* no aggregate is stored, and the run ends without another poll.
C7_FewerRecordsAborts ==
    (/\ RespOk("describeDeployments")
     /\ (~lastResp.data.present \/ Len(RespItems) < Len(deploymentIds)))
    => /\ cbCount = 1
       /\ cbErr = ErrIncomplete
       /\ cbStatus = Undefined
       /\ deployStatus \in {Null, "running"}
       /\ (nChecks = 1 => deployStatus = Null)
       /\ Idle

C7_Witness ==
    /\ RespOk("describeDeployments")
    /\ lastResp.data.present
    /\ Len(RespItems) = 0
    /\ cbErr = ErrIncomplete
    /\ nChecks = 2

\* C8: the layer whose instances are listed is one whose Type is the
\* application's Type followed by '-app'; when the stack has layers but none
\* of that Type the run ends with the layer-not-found error and
\* describe-instances, update-application and create-deployment are not invoked.
C8_LayerByConvention ==
    /\ (/\ RespOk("describeLayers")
        /\ lastResp.data.present
        /\ Len(RespItems) > 0
        /\ \A i \in 1..Len(RespItems) : RespItems[i].Type # ConventionLayerType(app.Type))
       => /\ cbCount = 1
          /\ cbErr = ErrLayerNotFound
          /\ ~Called("describeInstances")
          /\ ~Called("updateApp")
          /\ ~Called("createDeployment")
          /\ Idle
    /\ \A j \in 1..Len(calls) :
          (calls[j].op = "describeInstances" /\ lastResp.op = "describeLayers")
          => \E i \in 1..Len(RespItems) :
                /\ RespItems[i].Type = ConventionLayerType(app.Type)
                /\ calls[j].args = <<RespItems[i].LayerId>>

C8_Witness ==
    /\ RespOk("describeLayers")
    /\ app.Type = "rails"
    /\ Len(RespItems) = 2
    /\ RespItems[1].Type = "rails"
    /\ RespItems[2].Type = "php-app"
    /\ cbErr = ErrLayerNotFound

\* the run has ended: deploy was called and nothing is pending
RunEnded == started /\ Idle

\* C9: a run that has ended has invoked the caller's callback exactly once,
\* with an error or with the status 'successful' (never neither, never both);
\* an error a step reports is the error the callback got; the callback is
\* never invoked twice.
C9_CallbackExactlyOnce ==
    /\ cbCount <= 1
    /\ RunEnded <=> cbCount = 1
    /\ cbCount = 1 =>
          \/ cbErr \notin {Null, Undefined} /\ cbStatus # "successful"
          \/ cbErr = Null /\ cbStatus = "successful"
    /\ ReportedError # Null => cbErr = ReportedError

C9_Witness ==
    /\ RunEnded
    /\ cbCount = 1
    /\ cbErr = Null
    /\ cbStatus = "successful"
    /\ nChecks = 2

DeploymentCreated == remoteStatus # "none"
StaysRunning == remoteStatus \in {"none", "running"}
DescribeOutstanding == \E req \in outstanding : req.op = "describeDeployments"

\* C10: if the created deployment stays 'running' at the service forever and
\* every describe-deployments call succeeds (no error, one record per id),
\* the deploy callback is never invoked and describe-deployments is issued
\* again and again, without end.
C10_PollsForever ==
    ([]StaysRunning /\ []~StatusCheckFailed)
    => /\ [](DeploymentCreated => cbCount = 0)
       /\ [](DeploymentCreated => <>DescribeOutstanding)

C10_Witness ==
    /\ remoteStatus = "running"
    /\ deployStatus = "running"
    /\ nChecks = MaxCount
    /\ Len(calls) = MaxCalls
    /\ DescribeOutstanding
    /\ cbCount = 0

\* the --s3url of the command line with every placeholder replaced by v
Substituted(pieces, v) ==
    Join([i \in 1..Len(pieces) |-> IF pieces[i] = Placeholder THEN v ELSE pieces[i]])
PlaceholderCount(pieces) ==
    Cardinality({ i \in 1..Len(pieces) : pieces[i] = Placeholder })

\* C11: when the command line gives an --s3url with the {VERSION} placeholder
\* and --version V, deploy is called with the URL in which V stands for the
\* placeholder, and update-application is invoked with that URL.
C11_VersionSubstituted ==
    (/\ ViaCli
     /\ argv.flag = "--version"
     /\ PlaceholderCount(argv.s3url) = 1
     /\ started)
    => /\ s3SourceUrl = Substituted(argv.s3url, argv.value)
       /\ \A i \in 1..Len(calls) :
             calls[i].op = "updateApp"
             => calls[i].args[2] = Substituted(argv.s3url, argv.value)

\* C12: deploy.js exits when the run has ended; with code 0 exactly when the
\* run ended with the aggregate status 'successful', and with code 1 when it
\* ended with an error, whatever step reported it.
C12_ExitCode ==
    /\ exited <=> cbCount = 1
    /\ exited =>
          /\ exitCode \in {0, 1}
          /\ exitCode = 0 <=>
                (cbErr = Null /\ cbStatus = "successful" /\ deployStatus = "successful")
          /\ exitCode = 1 <=> cbErr \notin {Null, Undefined}
    /\ ReportedError # Null => exited /\ exitCode = 1

C12_Witness ==
    /\ exited
    /\ exitCode = 0
    /\ nChecks = 2
    /\ deployStatus = "successful"

LastCall == calls[Len(calls)]

\* C13: findApp yields the first record of the list describe-applications
\* returns when it has one or more, the not-found error when the list is
\* empty or absent, and the API's error when the call fails.
C13_FindApp ==
    lastResp.op = "describeApps"
    => IF lastResp.err # Null
       THEN cbCount = 1 /\ cbErr = lastResp.err /\ app = NoApp
       ELSE IF ~lastResp.data.present \/ Len(RespItems) = 0
       THEN cbCount = 1 /\ cbErr = ErrAppNotFound /\ app = NoApp
       ELSE /\ app = RespItems[1]
            /\ cbCount = 0
            /\ LastCall = Request("describeLayers", <<RespItems[1].StackId>>)

C13_Witness ==
    /\ lastResp.op = "describeApps"
    /\ Len(RespItems) = 2
    /\ RespItems[1] # RespItems[2]
    /\ app = RespItems[1]

\* the places of the layers of the queried Type in the last answer
Matching == { i \in 1..Len(RespItems) : RespItems[i].Type = ConventionLayerType(app.Type) }
FirstMatching == CHOOSE i \in Matching : \A j \in Matching : i <= j

\* C14: findLayerByType yields the first layer, in list order, whose Type is
\* the queried one; with layers but none of that Type it yields null without
\* an error (which findRunningInstances reports as layer-not-found, not as
\* the no-layers error); with no layers it yields the no-layers error.
C14_FindLayerByType ==
    RespOk("describeLayers")
    => IF ~lastResp.data.present \/ Len(RespItems) = 0
       THEN cbCount = 1 /\ cbErr = ErrNoLayers /\ ~Called("describeInstances")
       ELSE IF Matching = {}
       THEN cbCount = 1 /\ cbErr = ErrLayerNotFound /\ ~Called("describeInstances")
       ELSE /\ cbCount = 0
            /\ LastCall = Request("describeInstances", <<RespItems[FirstMatching].LayerId>>)

C14_Witness ==
    /\ RespOk("describeLayers")
    /\ Len(RespItems) = 2
    /\ RespItems[1] = [LayerId |-> "layer-4", Type |-> "rails-app"]
    /\ RespItems[2] = [LayerId |-> "layer-1", Type |-> "rails-app"]
    /\ LastCall = Request("describeInstances", <<"layer-4">>)

\* the places of the online instances in the last answer, and the k-th of them
OnlinePlaces == { i \in 1..Len(RespItems) : RespItems[i].Status = "online" }
OnlinePlace(k) ==
    CHOOSE i \in OnlinePlaces : Cardinality({ j \in OnlinePlaces : j <= i }) = k

\* C15: findRunningInstancesByLayerId yields exactly the instances whose
\* Status is 'online', in their original order; with none online it yields
\* the empty list without an error of its own (findRunningInstances then
\* reports no running instances).
C15_OnlineInstances ==
    RespOk("describeInstances")
    => IF OnlinePlaces = {}
       THEN instances = <<>> /\ cbCount = 1 /\ cbErr = ErrNoRunningInstances
       ELSE /\ cbCount = 0
            /\ Len(instances) = Cardinality(OnlinePlaces)
            /\ \A k \in 1..Len(instances) : instances[k] = RespItems[OnlinePlace(k)]

C15_Witness ==
    /\ RespOk("describeInstances")
    /\ Len(RespItems) = 2
    /\ RespItems[1] = [InstanceId |-> "i-2", Status |-> "online"]
    /\ RespItems[2] = [InstanceId |-> "i-1", Status |-> "online"]
    /\ instances = RespItems

\* C16: once update-application has succeeded (create-deployment was called
\* after it), no second update-application is issued and the application's
\* source URL at the service stays the supplied one, also when
\* create-deployment or the polling ends the run with an error.
C16_NoRollback ==
    (Called("updateApp") /\ Called("createDeployment"))
    => /\ CountCalls("updateApp") = 1
       /\ remoteUrl = s3SourceUrl

C16_Witness ==
    /\ RunEnded
    /\ cbErr = ErrDeployFailed
    /\ Called("updateApp")
    /\ remoteUrl \in Urls
    /\ remoteUrl = s3SourceUrl

\* C17: at most one remote request is outstanding at any time, and none
\* while the poll timer is pending.
C17_OneRequestAtATime ==
    /\ Cardinality(outstanding) <= 1
    /\ timerArmed => outstanding = {}

C17_Witness ==
    /\ timerArmed
    /\ outstanding = {}
    /\ nChecks = 2
    /\ deployStatus = "running"

\* C18: when a remote call answers with an error, the deploy callback
\* receives that very error value.
C18_SameErrorValue ==
    lastResp.err # Null
    => /\ cbCount = 1
       /\ cbErr = lastResp.err
       /\ cbErr \in ApiErrors

C18_Witness ==
    /\ lastResp.op = "describeDeployments"
    /\ lastResp.err = "ThrottlingException"
    /\ cbErr = "ThrottlingException"
    /\ nChecks = 2

\* C19: the remote calls of a run are, in order, describe-applications,
\* describe-layers, describe-instances, update-application (optional),
\* create-deployment, then describe-deployments again and again, or a prefix
\* of that; create-deployment is issued exactly once when the steps before it
\* succeeded, and every describe-deployments asks for the one id
\* create-deployment returned.
C19_CallOrder ==
    /\ Len(calls) >= 1 => calls[1] = Request("describeApps", <<reqAppId>>)
    /\ Len(calls) >= 2 => calls[2] = Request("describeLayers", <<app.StackId>>)
    /\ Len(calls) >= 3 => calls[3].op = "describeInstances"
    /\ Len(calls) >= 4 => calls[4].op \in {"updateApp", "createDeployment"}
    /\ \A i \in 5..Len(calls) :
          calls[i].op = (IF calls[i - 1].op = "updateApp"
                         THEN "createDeployment" ELSE "describeDeployments")
    /\ \A i \in 1..Len(calls) :
          /\ calls[i].op = "createDeployment"
             => calls[i].args = <<app.StackId, app.AppId, "deploy">>
          /\ calls[i].op = "describeDeployments"
             => remoteDeploymentId # Null /\ calls[i].args = <<remoteDeploymentId>>
    /\ (Len(instances) > 0 /\ (~UrlSupplied \/ remoteUrl = s3SourceUrl))
       => CountCalls("createDeployment") = 1

C19_Witness ==
    /\ Len(calls) = 7
    /\ calls[4].op = "updateApp"
    /\ calls[5].op = "createDeployment"
    /\ calls[7] = Request("describeDeployments", <<"d-2">>)

\* what the waits and checks of a run look like in every state
WaitsAndChecks ==
    /\ nWaits = nChecks
    /\ (Len(calls) < MaxCalls /\ nChecks < MaxCount)
       => CountCalls("describeDeployments") = nChecks
    /\ (remoteDeploymentId # Null /\ nWaits = 0) => timerArmed /\ outstanding = {}
    /\ (cbCount = 1 /\ cbErr = Null)
       => /\ RespOk("describeDeployments")
          /\ cbStatus = deployStatus

\* the aggregate the answer handled by this step gives
Observed == StatusResult(deploymentIds, [err |-> lastResp'.err, data |-> lastResp'.data])

\* what a step does to the poller: an expired wait issues the one request of
\* one status check; the answer to a status check starts one more wait when
\* its aggregate is 'running' and ends the run otherwise; nothing else starts
\* a wait but the answer to create-deployment
WaitThenCheck ==
    /\ (timerArmed /\ ~timerArmed')
       => /\ outstanding = {}
          /\ outstanding' = {Request("describeDeployments", <<remoteDeploymentId>>)}
          /\ nWaits' = Inc(nWaits)
          /\ nChecks' = Inc(nChecks)
    /\ (DescribeOutstanding /\ ~DescribeOutstanding')
       => /\ nWaits' = nWaits /\ nChecks' = nChecks
          /\ outstanding' = {}
          /\ IF Observed.err = Null /\ Observed.status = "running"
             THEN timerArmed' /\ cbCount' = 0
             ELSE ~timerArmed' /\ cbCount' = 1
    /\ (~timerArmed /\ timerArmed')
       => \E req \in outstanding : req.op \in {"createDeployment", "describeDeployments"}
    /\ (nChecks' # nChecks \/ nWaits' # nWaits) => (timerArmed /\ ~timerArmed')

\* C20: every status check, the first one after create-deployment included,
\* follows the expiry of one poll timer and issues exactly one
\* describe-deployments request; each 'running' aggregate starts exactly one
\* more wait and a terminal aggregate none, so a run that observes N 'running'
\* aggregates and then a terminal one performs N+1 waits and N+1 checks; the
\* early return on a remembered state never fires, so a result without error
\* always comes from the last status check.
C20_WaitBeforeEveryCheck == []WaitsAndChecks /\ [][WaitThenCheck]_vars

C20_Witness ==
    /\ RunEnded
    /\ nWaits = 2
    /\ nChecks = 2
    /\ CountCalls("describeDeployments") = 2
    /\ cbStatus = "successful"

\* the run has ended with the result 'successful' / with the deployment-failed error
ReportedSuccessful == cbCount = 1 /\ cbErr = Null /\ cbStatus = "successful"
ReportedDeployFailed == cbCount = 1 /\ cbErr = ErrDeployFailed

\* C21 as stated: when every request is answered and every expired timer
\* runs, a deployment whose Status at the service becomes and stays
\* 'successful' ('failed') leads to the callback being invoked with
\* 'successful' (with the deployment-failed error).
C21_Original ==
    /\ <>[](remoteStatus = "successful") => <>ReportedSuccessful
    /\ <>[](remoteStatus = "failed") => <>ReportedDeployFailed

\* C21: when every request is answered, every expired timer runs and no
\* status check itself fails (no API error, one record per requested id), a
\* deployment whose Status at the service becomes and stays 'successful'
\* leads to the callback being invoked with 'successful', and one whose
\* Status becomes and stays 'failed' to the callback being invoked with the
\* deployment-failed error; the result then stays.
C21_EventuallyReported ==
    []~StatusCheckFailed
    => /\ <>[](remoteStatus = "successful") => <>[]ReportedSuccessful
       /\ <>[](remoteStatus = "failed") => <>[]ReportedDeployFailed

C21_Witness ==
    /\ remoteStatus = "failed"
    /\ ReportedDeployFailed
    /\ ~StatusCheckFailed
    /\ RespOk("describeDeployments")
    /\ nChecks = 3
    /\ nWaits = 3

====
